---- MODULE Spec2Model ----
(***************************************************************************)
(* Table-driven REST API tests (rest_api_tests.go).                        *)
(*                                                                         *)
(* The program is one sequential process: main calls runAllTests, which    *)
(* calls checkEndPoint for every record of the table; checkEndPoint builds *)
(* a Frisby object, sends the request, runs the checks against the         *)
(* response and prints the per-case report.  The variable pc is the        *)
(* position of that process inside runAllTests / checkEndPoint.            *)
(*                                                                         *)
(* Strings whose content matters (URLs, header values, JSON status texts)  *)
(* are sequences of one-character strings, so that equality, prefix and    *)
(* concatenation are computed and not assumed.                             *)
(*                                                                         *)
(* The Frisby library (github.com/verdverm/frisby) is not part of the      *)
(* repository; its methods are modelled at the places the harness calls    *)
(* them: AddError appends to the object's error list and increments        *)
(* Global.NumErrored, ExpectStatus / ExpectHeader / Expect increment       *)
(* Global.NumAsserts and call AddError on a mismatch, and PrintReport      *)
(* prints the object's error list.                                         *)
(***************************************************************************)
EXTENDS Integers, Sequences, FiniteSets, TLC

VARIABLES
    tests,      \* the table handed to runAllTests
    service,    \* service[i]: what the backing service answers to case i
    run,        \* number of calls of runAllTests made so far
    idx,        \* index of the case the range loop is at (0: none)
    pc,         \* position of the process
    f,          \* the Frisby object of the current case
    Global,     \* frisby.Global: the process-wide counters
    results,    \* values returned by the calls of runAllTests, in order
    exitCode,   \* exit status of the process (NoExit while it runs)
    trace       \* history: what was sent, checked and printed, in order

vars == <<tests, service, run, idx, pc, f, Global, results, exitCode, trace>>

----------------------------------------------------------------------------
(* Bounds of the model *)

MaxCases == 2
MaxRuns == 2

----------------------------------------------------------------------------
(* Constants of rest_api_tests.go *)

apiURL ==
    <<"h", "t", "t", "p", ":", "/", "/", "l", "o", "c", "a", "l", "h", "o", "s", "t", ":", "8", "0", "8", "0", "/", "a", "p", "i", "/", "v", "1", "/">>

ContentTypeJSON ==
    <<"a", "p", "p", "l", "i", "c", "a", "t", "i", "o", "n", "/", "j", "s", "o", "n", ";", " ", "c", "h", "a", "r", "s", "e", "t", "=", "u", "t", "f", "-", "8">>

ContentTypeText ==
    <<"t", "e", "x", "t", "/", "p", "l", "a", "i", "n", ";", " ", "c", "h", "a", "r", "s", "e", "t", "=", "u", "t", "f", "-", "8">>

TextPlain ==
    <<"t", "e", "x", "t", "/", "p", "l", "a", "i", "n">>

None == <<>>

OkStatusResponse == <<"o", "k">>

expectedInfoKeys ==
    <<"BuildBranch", "BuildCommit", "BuildTime", "BuildVersion", "DB_version", "UtilsVersion">>

StatusOK == 200
StatusNotFound == 404

\* values of RestAPITest.AdditionalChecker
NilChecker == "nil"
MetricsChecker == "metricsEndPointContentTypeChecker"
InfoChecker == "infoResponseChecker"

\* os.Exit keeps the low 8 bits of its argument
ExitWidth == 256
NoExit == -1
\* exit status of a Go process that dies of a run-time panic
PanicExit == 2

----------------------------------------------------------------------------
(* Helpers on sequences *)

Range(s) == {s[i] : i \in 1..Len(s)}

SeqsUpTo(S, n) == UNION {[1..k -> S] : k \in 0..n}

\* strings.HasPrefix
HasPrefix(s, prefix) ==
    /\ Len(prefix) <= Len(s)
    /\ SubSeq(s, 1, Len(prefix)) = prefix

\* strings.Contains, used to tell exact match from substring match
Contains(s, sub) ==
    \E i \in 0..(Len(s) - Len(sub)) : SubSeq(s, i + 1, i + Len(sub)) = sub

----------------------------------------------------------------------------
(* Responses.  NoResponse: the request failed at the transport level and   *)
(* the Frisby object holds no response.                                   *)

NoResponse == [exists |-> FALSE]

Response(status, contentType, body) ==
    [exists |-> TRUE, StatusCode |-> status, ContentType |-> contentType, Body |-> body]

\* A body: whether reading it succeeds, and the JSON document it holds.
\* kind "malformed": not a JSON object (json.Unmarshal returns an error and
\* decodes nothing).  status / info: the member is absent, has the type the
\* Go structure expects ("string", "map") or another type ("other").
Body(read, kind, statusType, statusVal, infoType, infoKeys) ==
    [read |-> read, kind |-> kind,
     status |-> [type |-> statusType, val |-> statusVal],
     info |-> [type |-> infoType, keys |-> infoKeys]]

UnreadableBody == Body(FALSE, "malformed", "absent", <<>>, "absent", {})
MalformedBody == Body(TRUE, "malformed", "absent", <<>>, "absent", {})
StatusBody(s) == Body(TRUE, "object", "string", s, "absent", {})
InfoBody(s, keys) == Body(TRUE, "object", "string", s, "map", keys)

----------------------------------------------------------------------------
(* Errors are records; kind names the AddError call that produced them.    *)

Err(kind) == [kind |-> kind, key |-> ""]
KeyErr(key) == [kind |-> "infoKey", key |-> key]

----------------------------------------------------------------------------
(* The identity header: fmt.Sprintf, base64.StdEncoding.EncodeToString     *)

authHeaderName ==
    <<"x", "-", "r", "h", "-", "i", "d", "e", "n", "t", "i", "t", "y">>

accountNumber == <<"4", "2">>

\* the printable ASCII characters, code 32 first (code 96 is spelled out)
Ascii ==
    <<" ", "!", "\"", "#", "$", "%", "&", "'", "(", ")", "*", "+", ",", "-", ".", "/", "0", "1", "2", "3", "4", "5", "6", "7", "8", "9", ":", ";", "<", "=", ">", "?", "@", "A", "B", "C", "D", "E", "F", "G", "H", "I", "J", "K", "L", "M", "N", "O", "P", "Q", "R", "S", "T", "U", "V", "W", "X", "Y", "Z", "[", "\\", "]", "^", "_", "grave", "a", "b", "c", "d", "e", "f", "g", "h", "i", "j", "k", "l", "m", "n", "o", "p", "q", "r", "s", "t", "u", "v", "w", "x", "y", "z", "{", "|", "}", "~">>

\* the byte of every character
AsciiCode ==
    [c \in {Ascii[i] : i \in 1..Len(Ascii)} |-> 31 + (CHOOSE i \in 1..Len(Ascii) : Ascii[i] = c)]

\* the byte of a character
Ord(c) == AsciiCode[c]

\* the alphabet of base64.StdEncoding
encodeStd ==
    <<"A", "B", "C", "D", "E", "F", "G", "H", "I", "J", "K", "L", "M", "N", "O", "P", "Q", "R", "S", "T", "U", "V", "W", "X", "Y", "Z", "a", "b", "c", "d", "e", "f", "g", "h", "i", "j", "k", "l", "m", "n", "o", "p", "q", "r", "s", "t", "u", "v", "w", "x", "y", "z", "0", "1", "2", "3", "4", "5", "6", "7", "8", "9", "+", "/">>

Sextet(n) == encodeStd[n + 1]

\* the byte at position i of s, 0 past the end
ByteAt(s, i) == IF i <= Len(s) THEN Ord(s[i]) ELSE 0

\* base64.StdEncoding.EncodeToString: every group of three bytes gives four
\* characters; a last group of one or two bytes is padded with "=".
\* Character k of the output belongs to group (k - 1) \div 4.
EncodeToString(s) ==
    [k \in 1..(4 * ((Len(s) + 2) \div 3)) |->
        LET g == (k - 1) \div 4
            a == ByteAt(s, 3 * g + 1)
            b == ByteAt(s, 3 * g + 2)
            c == ByteAt(s, 3 * g + 3)
        IN  CASE (k - 1) % 4 = 0 -> Sextet(a \div 4)
              [] (k - 1) % 4 = 1 -> Sextet((a % 4) * 16 + b \div 16)
              [] (k - 1) % 4 = 2 ->
                    IF 3 * g + 2 > Len(s) THEN "=" ELSE Sextet((b % 16) * 4 + c \div 64)
              [] OTHER ->
                    IF 3 * g + 3 > Len(s) THEN "=" ELSE Sextet(c % 64)]

Digit(d) == Ascii[17 + d]

RECURSIVE FormatNat(_)
FormatNat(n) ==
    IF n < 10 THEN <<Digit(n)>> ELSE FormatNat(n \div 10) \o <<Digit(n % 10)>>

\* the verb %d of fmt.Sprintf
FormatInt(n) == IF n < 0 THEN <<"-">> \o FormatNat(0 - n) ELSE FormatNat(n)

PlainHeaderHead ==
    <<"{", "\"", "i", "d", "e", "n", "t", "i", "t", "y", "\"", ":", " ", "{", "\"", "i", "n", "t", "e", "r", "n", "a", "l", "\"", ":", " ", "{", "\"", "o", "r", "g", "_", "i", "d", "\"", ":", " ", "\"">>

PlainHeaderMid ==
    <<"\"", "}", ",", " ", "\"", "a", "c", "c", "o", "u", "n", "t", "_", "n", "u", "m", "b", "e", "r", "\"", ":", "\"">>

PlainHeaderTail ==
    <<"\"", "}", "}">>

\* PlainHeader changed to close "identity" before "account_number"
PlainHeader_Sibling(orgID) ==
    PlainHeaderHead \o FormatInt(orgID)
    \o <<"\"", "}", "}", ",", " ", "\"", "a", "c", "c", "o", "u", "n", "t", "_", "n", "u", "m", "b", "e", "r", "\"", ":", "\"">>
    \o accountNumber \o <<"\"", "}">>

\* plainHeader of setAuthHeaderForOrganization
PlainHeader(orgID) ==
    PlainHeaderHead \o FormatInt(orgID) \o PlainHeaderMid \o accountNumber \o PlainHeaderTail

\* Frisby.SetHeader: one value per header name
SetHeader(F, name, value) ==
    [F EXCEPT !.Headers = {h \in @ : h[1] # name} \cup {<<name, value>>}]

setAuthHeaderForOrganization(F, orgID) ==
    SetHeader(F, authHeaderName, EncodeToString(PlainHeader(orgID)))

setAuthHeader(F) == setAuthHeaderForOrganization(F, 1)

----------------------------------------------------------------------------
(* The Frisby object and the checks.  A check takes and returns the pair   *)
(* st = [f, Global] of the state it reads and writes.                      *)

\* frisby.Create
Create ==
    [Method |-> "", Url |-> <<>>, Headers |-> {}, Resp |-> NoResponse, Errs |-> <<>>]

\* AddError changed to count an object once, however many errors it has
AddError_CountsOnce(st, e) ==
    [f |-> [st.f EXCEPT !.Errs = Append(@, e)],
     Global |-> [st.Global EXCEPT !.NumErrored = IF st.f.Errs = <<>> THEN @ + 1 ELSE @]]

\* Frisby.AddError: the error goes to the object's list, and the global
\* counter of errors grows by one
AddError(st, e) ==
    [f |-> [st.f EXCEPT !.Errs = Append(@, e)],
     Global |-> [st.Global EXCEPT !.NumErrored = @ + 1]]

\* every Expect... method counts one assertion
CountAssert(st) == [st EXCEPT !.Global.NumAsserts = @ + 1]

\* Frisby.ExpectStatus, called with test.ExpectedStatus
ExpectStatus(st, code) ==
    IF st.f.Resp.StatusCode # code
    THEN AddError(CountAssert(st), Err("status"))
    ELSE CountAssert(st)

\* Frisby.ExpectHeader, called with contentTypeHeader: a missing header and
\* a different value are both one error
ExpectHeader(st, value) ==
    IF st.f.Resp.ContentType # value
    THEN AddError(CountAssert(st), Err("header"))
    ELSE CountAssert(st)

\* json.Unmarshal into StatusOnlyResponse
UnmarshalStatusOnly(body) ==
    IF body.kind # "object" THEN [err |-> TRUE, Status |-> <<>>]
    ELSE [err |-> body.status.type = "other",
          Status |-> IF body.status.type = "string" THEN body.status.val ELSE <<>>]

\* json.Unmarshal into InfoResponse; the members that have the expected
\* type are decoded even when another member is reported as an error
UnmarshalInfo(body) ==
    IF body.kind # "object" THEN [err |-> TRUE, Status |-> <<>>, Info |-> {}]
    ELSE [err |-> body.status.type = "other" \/ body.info.type = "other",
          Status |-> IF body.status.type = "string" THEN body.status.val ELSE <<>>,
          Info |-> IF body.info.type = "map" THEN body.info.keys ELSE {}]

\* readStatusFromResponse: the decoded response and the state after the
\* errors it added
readStatusFromResponse(st) ==
    IF ~st.f.Resp.Body.read
    THEN [response |-> [Status |-> <<>>], st |-> AddError(st, Err("content"))]
    ELSE LET u == UnmarshalStatusOnly(st.f.Resp.Body)
         IN  [response |-> [Status |-> u.Status],
              st |-> IF u.err THEN AddError(st, Err("unmarshal")) ELSE st]

\* statusResponseChecker changed to accept a status that contains the
\* expected text
statusResponseChecker_Substring(st, expectedStatus) ==
    LET r == readStatusFromResponse(st)
    IN  IF ~Contains(r.response.Status, expectedStatus)
        THEN AddError(r.st, Err("jsonStatus"))
        ELSE r.st

statusResponseChecker(st, expectedStatus) ==
    LET r == readStatusFromResponse(st)
    IN  IF r.response.Status # expectedStatus
        THEN AddError(r.st, Err("jsonStatus"))
        ELSE r.st

\* metricsEndPointContentTypeChecker changed to ask for the whole value
metricsEndPointContentTypeChecker_Exact(st) ==
    IF st.f.Resp.ContentType = ContentTypeText
    THEN CountAssert(st)
    ELSE AddError(CountAssert(st), Err("prefix"))

metricsEndPointContentTypeChecker(st) ==
    IF HasPrefix(st.f.Resp.ContentType, TextPlain)
    THEN CountAssert(st)
    ELSE AddError(CountAssert(st), Err("prefix"))

\* the loop of infoResponseChecker over expectedInfoKeys
RECURSIVE CheckInfoKeys(_, _, _)
CheckInfoKeys(st, info, keys) ==
    IF keys = <<>> THEN st
    ELSE CheckInfoKeys(IF Head(keys) \notin info THEN AddError(st, KeyErr(Head(keys))) ELSE st,
                       info, Tail(keys))

\* infoResponseChecker changed to leave the loop at the first missing key
infoResponseChecker_FirstMissingKey(st) ==
    IF ~st.f.Resp.Body.read
    THEN AddError(st, Err("content"))
    ELSE LET u == UnmarshalInfo(st.f.Resp.Body)
             s1 == IF u.err THEN AddError(st, Err("unmarshal")) ELSE st
             s2 == IF u.Status # OkStatusResponse THEN AddError(s1, Err("infoStatus")) ELSE s1
             s3 == IF Cardinality(u.Info) = 0 THEN AddError(s2, Err("infoEmpty")) ELSE s2
             IsMissing(key) == key \notin u.Info
             missing == SelectSeq(expectedInfoKeys, IsMissing)
         IN  IF missing = <<>> THEN s3 ELSE AddError(s3, KeyErr(Head(missing)))

infoResponseChecker(st) ==
    IF ~st.f.Resp.Body.read
    THEN AddError(st, Err("content"))
    ELSE LET u == UnmarshalInfo(st.f.Resp.Body)
             s1 == IF u.err THEN AddError(st, Err("unmarshal")) ELSE st
             s2 == IF u.Status # OkStatusResponse THEN AddError(s1, Err("infoStatus")) ELSE s1
             s3 == IF Cardinality(u.Info) = 0 THEN AddError(s2, Err("infoEmpty")) ELSE s2
         IN  CheckInfoKeys(s3, u.Info, expectedInfoKeys)

\* test.AdditionalChecker(f)
CallChecker(checker, st) ==
    IF checker = MetricsChecker THEN metricsEndPointContentTypeChecker(st)
    ELSE infoResponseChecker(st)

----------------------------------------------------------------------------
(* The inputs: tables of RestAPITest records and the answers of the        *)
(* backing service.  Tables of up to MaxCases records are drawn from a     *)
(* small set of records and answers; tables of one record are drawn from   *)
(* a larger set, so that every check meets every kind of answer.           *)

RestAPITest(endpoint, method, authHeader, org, status, contentType, responseStatus, checker) ==
    [Endpoint |-> endpoint, Method |-> method,
     AuthHeader |-> authHeader, AuthHeaderOrganization |-> org,
     ExpectedStatus |-> status, ExpectedContentType |-> contentType,
     ExpectedResponseStatus |-> responseStatus, AdditionalChecker |-> checker]

Okay == <<"o", "k", "a", "y">>

AllInfoKeys == Range(expectedInfoKeys)

RunnerRecords ==
    {RestAPITest(<<>>, "GET", TRUE, 0, StatusOK, ct, rs, NilChecker) :
        ct \in {None, ContentTypeJSON}, rs \in {None, OkStatusResponse}}

RunnerResponses ==
    {NoResponse,
     Response(StatusOK, ContentTypeJSON, StatusBody(OkStatusResponse)),
     Response(StatusNotFound, ContentTypeText, MalformedBody)}

CaseRecords ==
    {RestAPITest(<<"i", "n", "f", "o">>, "GET", TRUE, 0, es, ct, rs, ch) :
        es \in {StatusOK, StatusNotFound},
        ct \in {None, ContentTypeJSON, ContentTypeText},
        rs \in {None, OkStatusResponse},
        ch \in {NilChecker, MetricsChecker, InfoChecker}}

CaseBodies ==
    {UnreadableBody, MalformedBody,
     StatusBody(OkStatusResponse), StatusBody(Okay), StatusBody(<<"o">>),
     Body(TRUE, "object", "absent", <<>>, "absent", {}),
     Body(TRUE, "object", "other", <<>>, "absent", {}),
     Body(TRUE, "object", "string", OkStatusResponse, "other", {}),
     InfoBody(OkStatusResponse, AllInfoKeys),
     InfoBody(OkStatusResponse, AllInfoKeys \ {"BuildTime"}),
     InfoBody(OkStatusResponse, {}),
     InfoBody(Okay, {"BuildBranch"})}

CaseResponses ==
    {NoResponse} \cup
    {Response(sc, ct, b) :
        sc \in {StatusOK, StatusNotFound},
        ct \in {<<>>, ContentTypeJSON, ContentTypeText, TextPlain},
        b \in CaseBodies}

InputOf(cases) ==
    [tests |-> [i \in DOMAIN cases |-> cases[i][1]],
     service |-> [i \in DOMAIN cases |-> cases[i][2]]]

Inputs ==
    {InputOf(cases) : cases \in SeqsUpTo(RunnerRecords \X RunnerResponses, MaxCases)}
    \cup {InputOf(<<c>>) : c \in CaseRecords \X CaseResponses}

(* Records of the table `tests`, and one-record tables around them         *)

\* the record of "foobar" with ExpectedContentType left out
FoobarTest_NoContentType ==
    RestAPITest(<<"f", "o", "o", "b", "a", "r">>, "GET", TRUE, 0,
                StatusNotFound, None, None, NilChecker)

\* "Check the non-existent end point in REST API"
FoobarTest ==
    RestAPITest(<<"f", "o", "o", "b", "a", "r">>, "GET", TRUE, 0,
                StatusNotFound, ContentTypeText, None, NilChecker)

\* "Check the Prometheus metrics API endpoint"
MetricsTest ==
    RestAPITest(<<"m", "e", "t", "r", "i", "c", "s">>, "GET", FALSE, 0,
                StatusOK, None, None, MetricsChecker)

\* "Check the info endpoint"
InfoTest ==
    RestAPITest(<<"i", "n", "f", "o">>, "GET", TRUE, 0,
                StatusOK, ContentTypeJSON, OkStatusResponse, InfoChecker)

\* the end points of the table that a client could be tempted to rewrite
Endpoints ==
    {<<>>, <<".", ".">>, <<".", ".", "/">>, <<".", ".", ".">>, <<".", ".", "?">>,
     <<"/", "o", "p", "e", "n", "a", "p", "i", ".", "j", "s", "o", "n">>,
     <<"f", "o", "o", "b", "a", "r">>}

\* the organizations of the table (0 when the field is left out, 100000),
\* the default one, and a negative one
Organizations == {0, 1, 100000, 0 - 7}

\* records that differ in what the request is built from
RequestRecords ==
    {RestAPITest(ep, m, ah, org, StatusOK, None, None, NilChecker) :
        ep \in Endpoints, m \in {"GET", "POST", "OPTIONS"},
        ah \in BOOLEAN, org \in Organizations}

RequestResponses ==
    {NoResponse, Response(StatusOK, ContentTypeJSON, StatusBody(OkStatusResponse))}

\* values of the Content-Type header around the prefix "text/plain"
PrefixContentTypes ==
    {<<>>, TextPlain, ContentTypeText, ContentTypeJSON,
     <<"t", "e", "x", "t", "/", "p", "l", "a", "i">>,
     <<"t", "e", "x", "t", "/", "p", "l", "a", "i", "n", "x">>,
     <<" ", "t", "e", "x", "t", "/", "p", "l", "a", "i", "n">>,
     <<"T", "e", "x", "t", "/", "p", "l", "a", "i", "n">>}

MetricsResponses ==
    {Response(sc, ct, MalformedBody) :
        sc \in {StatusOK, StatusNotFound}, ct \in PrefixContentTypes}

\* answers of the info end point: every choice of the expected keys, with
\* and without a key nobody expects
InfoResponses ==
    {Response(StatusOK, ContentTypeJSON, InfoBody(s, keys \cup extra)) :
        s \in {OkStatusResponse, Okay, <<>>},
        keys \in SUBSET AllInfoKeys,
        extra \in {{}, {"Other"}}}

CaseInputs ==
    {InputOf(<<c>>) : c \in RequestRecords \X RequestResponses}
    \cup {InputOf(<<c>>) : c \in {FoobarTest} \X CaseResponses}
    \cup {InputOf(<<c>>) : c \in {MetricsTest} \X MetricsResponses}
    \cup {InputOf(<<c>>) : c \in {InfoTest} \X InfoResponses}

----------------------------------------------------------------------------
(* The table `tests` of rest_api_tests.go, record by record                *)

StatusBadRequest == 400
StatusUnauthorized == 401
StatusMethodNotAllowed == 405

ContentTypeJSONWithoutCharset ==
    <<"a", "p", "p", "l", "i", "c", "a", "t", "i", "o", "n", "/", "j", "s", "o", "n">>

MissingAuthToken ==
    <<"M", "i", "s", "s", "i", "n", "g", " ", "a", "u", "t", "h", " ", "t", "o", "k", "e", "n">>

knownOrganizationID ==
    <<"1">>

unknownOrganizationID ==
    <<"1", "0", "0", "0", "0", "0">>

wrongOrganizationID ==
    <<"f", "o", "o", "b", "a", "r">>

knownClusterForOrganization1 ==
    <<"0", "0", "0", "0", "0", "0", "0", "0", "-", "0", "0", "0", "0", "-", "0", "0", "0", "0", "-", "0", "0", "0", "0", "-", "0", "0", "0", "0", "0", "0", "0", "0", "0", "0", "0", "0">>

unknownClusterForOrganization1 ==
    <<"0", "0", "0", "0", "0", "0", "0", "0", "-", "0", "0", "0", "0", "-", "0", "0", "0", "0", "-", "0", "0", "0", "0", "-", "0", "0", "0", "0", "0", "0", "0", "0", "0", "0", "0", "1">>

\* the texts of ExpectedResponseStatus written out in the table

NotFoundOrg1Cluster1 ==
    <<"I", "t", "e", "m", " ", "w", "i", "t", "h", " ", "I", "D", " ", "1", "/", "0", "0", "0", "0", "0", "0", "0", "0", "-", "0", "0", "0", "0", "-", "0", "0", "0", "0", "-", "0", "0", "0", "0", "-", "0", "0", "0", "0", "0", "0", "0", "0", "0", "0", "0", "1", " ", "w", "a", "s", " ", "n", "o", "t", " ", "f", "o", "u", "n", "d", " ", "i", "n", " ", "t", "h", "e", " ", "s", "t", "o", "r", "a", "g", "e">>

NotFoundOrg100000Cluster0 ==
    <<"I", "t", "e", "m", " ", "w", "i", "t", "h", " ", "I", "D", " ", "1", "0", "0", "0", "0", "0", "/", "0", "0", "0", "0", "0", "0", "0", "0", "-", "0", "0", "0", "0", "-", "0", "0", "0", "0", "-", "0", "0", "0", "0", "-", "0", "0", "0", "0", "0", "0", "0", "0", "0", "0", "0", "0", " ", "w", "a", "s", " ", "n", "o", "t", " ", "f", "o", "u", "n", "d", " ", "i", "n", " ", "t", "h", "e", " ", "s", "t", "o", "r", "a", "g", "e">>

NotFoundOrg100000Cluster1 ==
    <<"I", "t", "e", "m", " ", "w", "i", "t", "h", " ", "I", "D", " ", "1", "0", "0", "0", "0", "0", "/", "0", "0", "0", "0", "0", "0", "0", "0", "-", "0", "0", "0", "0", "-", "0", "0", "0", "0", "-", "0", "0", "0", "0", "-", "0", "0", "0", "0", "0", "0", "0", "0", "0", "0", "0", "1", " ", "w", "a", "s", " ", "n", "o", "t", " ", "f", "o", "u", "n", "d", " ", "i", "n", " ", "t", "h", "e", " ", "s", "t", "o", "r", "a", "g", "e">>

ClusterParseError ==
    <<"E", "r", "r", "o", "r", " ", "d", "u", "r", "i", "n", "g", " ", "p", "a", "r", "s", "i", "n", "g", " ", "p", "a", "r", "a", "m", " ", "'", "c", "l", "u", "s", "t", "e", "r", "'", " ", "w", "i", "t", "h", " ", "v", "a", "l", "u", "e", " ", "'", "1", "'", ".", " ", "E", "r", "r", "o", "r", ":", " ", "'", "i", "n", "v", "a", "l", "i", "d", " ", "U", "U", "I", "D", " ", "l", "e", "n", "g", "t", "h", ":", " ", "1", "'">>

OrgParseError ==
    <<"E", "r", "r", "o", "r", " ", "d", "u", "r", "i", "n", "g", " ", "p", "a", "r", "s", "i", "n", "g", " ", "p", "a", "r", "a", "m", " ", "'", "o", "r", "g", "_", "i", "d", "'", " ", "w", "i", "t", "h", " ", "v", "a", "l", "u", "e", " ", "'", "f", "o", "o", "b", "a", "r", "'", ".", " ", "E", "r", "r", "o", "r", ":", " ", "'", "u", "n", "s", "i", "g", "n", "e", "d", " ", "i", "n", "t", "e", "g", "e", "r", " ", "e", "x", "p", "e", "c", "t", "e", "d", "'">>

\* httputils.MakeURLToEndpoint: the prefix, a slash, and the end point with
\* its parameters filled in.  The path templates belong to the server
\* package and are kept as one element each, followed by the arguments.
MakeURLToEndpoint(apiPrefix, endpoint, args) ==
    apiPrefix \o <<"/">> \o endpoint
    \o <<"/">> \o args[1] \o <<"/">> \o args[2] \o <<"/">> \o args[3]

ReportEndpoint == <<"server.ReportEndpoint">>
ReportMetainfoEndpoint == <<"server.ReportMetainfoEndpoint">>
UserID == <<"testdata.UserID">>

\* url[1:] drops the leading slash
constructURLForReportForOrgCluster(organizationID, clusterID, userID) ==
    Tail(MakeURLToEndpoint(<<>>, ReportEndpoint, <<organizationID, clusterID, userID>>))

constructURLForReportInfoForOrgCluster(organizationID, clusterID, userID) ==
    Tail(MakeURLToEndpoint(<<>>, ReportMetainfoEndpoint, <<organizationID, clusterID, userID>>))

\* the end points of the service itself (lines 270-405)
BasicTests ==
    <<
    RestAPITest(<<>>, "GET", TRUE, 0,
                StatusOK, ContentTypeJSON, OkStatusResponse, NilChecker),
    RestAPITest(<<".", ".">>, "GET", TRUE, 0,
                StatusNotFound, ContentTypeText, None, NilChecker),
    RestAPITest(<<".", ".", "/">>, "GET", TRUE, 0,
                StatusNotFound, ContentTypeText, None, NilChecker),
    RestAPITest(<<".", ".", ".">>, "GET", TRUE, 0,
                StatusNotFound, ContentTypeText, None, NilChecker),
    RestAPITest(<<".", ".", "?">>, "GET", TRUE, 0,
                StatusNotFound, ContentTypeText, None, NilChecker),
    FoobarTest,
    RestAPITest(<<>>, "POST", TRUE, 0,
                StatusMethodNotAllowed, None, None, NilChecker),
    RestAPITest(<<>>, "PUT", TRUE, 0,
                StatusMethodNotAllowed, None, None, NilChecker),
    RestAPITest(<<>>, "DELETE", TRUE, 0,
                StatusMethodNotAllowed, None, None, NilChecker),
    RestAPITest(<<>>, "PATCH", TRUE, 0,
                StatusMethodNotAllowed, None, None, NilChecker),
    RestAPITest(<<>>, "HEAD", TRUE, 0,
                StatusMethodNotAllowed, None, None, NilChecker),
    RestAPITest(<<>>, "OPTIONS", TRUE, 0,
                StatusMethodNotAllowed, None, None, NilChecker),
    MetricsTest,
    RestAPITest(<<"/", "o", "p", "e", "n", "a", "p", "i", ".", "j", "s", "o", "n">>, "GET", TRUE, 0,
                StatusOK, ContentTypeJSONWithoutCharset, None, NilChecker),
    InfoTest
    >>

\* the report end point (lines 406-569)
ReportTests ==
    <<
    RestAPITest(constructURLForReportForOrgCluster(knownOrganizationID, knownClusterForOrganization1, UserID), "GET", TRUE, 0,
                StatusOK, ContentTypeJSON, OkStatusResponse, NilChecker),
    RestAPITest(constructURLForReportForOrgCluster(knownOrganizationID, unknownClusterForOrganization1, UserID), "GET", TRUE, 0,
                StatusNotFound, ContentTypeJSON, NotFoundOrg1Cluster1, NilChecker),
    RestAPITest(constructURLForReportForOrgCluster(unknownOrganizationID, knownClusterForOrganization1, UserID), "GET", TRUE, 100000,
                StatusNotFound, ContentTypeJSON, NotFoundOrg100000Cluster0, NilChecker),
    RestAPITest(constructURLForReportForOrgCluster(unknownOrganizationID, unknownClusterForOrganization1, UserID), "GET", TRUE, 100000,
                StatusNotFound, ContentTypeJSON, NotFoundOrg100000Cluster1, NilChecker),
    RestAPITest(constructURLForReportForOrgCluster(<<"0", "0", "0", "0", "0", "0", "0", "0", "0", "0", "0", "0", "0", "0", "0", "0", "0", "0", "0", "0", "0", "0", "0", "0", "0", "0", "0", "0", "0", "0", "0", "0", "0", "0", "0", "0">>, <<"1">>, UserID), "OPTIONS", TRUE, 0,
                StatusBadRequest, ContentTypeJSON, ClusterParseError, NilChecker),
    RestAPITest(constructURLForReportForOrgCluster(wrongOrganizationID, knownClusterForOrganization1, UserID), "GET", TRUE, 0,
                StatusBadRequest, ContentTypeJSON, OrgParseError, NilChecker),
    RestAPITest(constructURLForReportForOrgCluster(knownOrganizationID, knownClusterForOrganization1, UserID), "GET", FALSE, 0,
                StatusUnauthorized, ContentTypeJSON, MissingAuthToken, NilChecker),
    RestAPITest(constructURLForReportForOrgCluster(knownOrganizationID, unknownClusterForOrganization1, UserID), "GET", FALSE, 0,
                StatusUnauthorized, ContentTypeJSON, MissingAuthToken, NilChecker),
    RestAPITest(constructURLForReportForOrgCluster(unknownOrganizationID, knownClusterForOrganization1, UserID), "GET", FALSE, 0,
                StatusUnauthorized, ContentTypeJSON, MissingAuthToken, NilChecker),
    RestAPITest(constructURLForReportForOrgCluster(unknownOrganizationID, unknownClusterForOrganization1, UserID), "GET", FALSE, 0,
                StatusUnauthorized, ContentTypeJSON, MissingAuthToken, NilChecker),
    RestAPITest(constructURLForReportForOrgCluster(wrongOrganizationID, knownClusterForOrganization1, UserID), "GET", FALSE, 0,
                StatusUnauthorized, ContentTypeJSON, MissingAuthToken, NilChecker),
    RestAPITest(constructURLForReportForOrgCluster(wrongOrganizationID, unknownClusterForOrganization1, UserID), "GET", FALSE, 0,
                StatusUnauthorized, ContentTypeJSON, MissingAuthToken, NilChecker),
    RestAPITest(constructURLForReportForOrgCluster(knownOrganizationID, knownClusterForOrganization1, UserID), "POST", TRUE, 0,
                StatusMethodNotAllowed, None, None, NilChecker),
    RestAPITest(constructURLForReportForOrgCluster(knownOrganizationID, knownClusterForOrganization1, UserID), "PUT", TRUE, 0,
                StatusMethodNotAllowed, None, None, NilChecker),
    RestAPITest(constructURLForReportForOrgCluster(knownOrganizationID, knownClusterForOrganization1, UserID), "DELETE", TRUE, 0,
                StatusMethodNotAllowed, None, None, NilChecker),
    RestAPITest(constructURLForReportForOrgCluster(knownOrganizationID, knownClusterForOrganization1, UserID), "PATCH", TRUE, 0,
                StatusMethodNotAllowed, None, None, NilChecker),
    RestAPITest(constructURLForReportForOrgCluster(knownOrganizationID, knownClusterForOrganization1, UserID), "HEAD", TRUE, 0,
                StatusMethodNotAllowed, None, None, NilChecker),
    RestAPITest(constructURLForReportForOrgCluster(knownOrganizationID, knownClusterForOrganization1, UserID), "OPTIONS", TRUE, 0,
                StatusOK, ContentTypeJSON, OkStatusResponse, NilChecker)
    >>

\* the report metadata end point (lines 570-731)
ReportInfoTests ==
    <<
    RestAPITest(constructURLForReportInfoForOrgCluster(knownOrganizationID, knownClusterForOrganization1, UserID), "GET", TRUE, 0,
                StatusOK, ContentTypeJSON, OkStatusResponse, NilChecker),
    RestAPITest(constructURLForReportInfoForOrgCluster(knownOrganizationID, unknownClusterForOrganization1, UserID), "GET", TRUE, 0,
                StatusNotFound, ContentTypeJSON, NotFoundOrg1Cluster1, NilChecker),
    RestAPITest(constructURLForReportInfoForOrgCluster(unknownOrganizationID, knownClusterForOrganization1, UserID), "GET", TRUE, 0,
                StatusNotFound, ContentTypeJSON, NotFoundOrg100000Cluster0, NilChecker),
    RestAPITest(constructURLForReportInfoForOrgCluster(unknownOrganizationID, unknownClusterForOrganization1, UserID), "GET", TRUE, 0,
                StatusNotFound, ContentTypeJSON, NotFoundOrg100000Cluster1, NilChecker),
    RestAPITest(constructURLForReportInfoForOrgCluster(wrongOrganizationID, knownClusterForOrganization1, UserID), "GET", TRUE, 0,
                StatusBadRequest, ContentTypeJSON, OrgParseError, NilChecker),
    RestAPITest(constructURLForReportInfoForOrgCluster(wrongOrganizationID, unknownClusterForOrganization1, UserID), "GET", TRUE, 0,
                StatusBadRequest, ContentTypeJSON, OrgParseError, NilChecker),
    RestAPITest(constructURLForReportInfoForOrgCluster(knownOrganizationID, knownClusterForOrganization1, UserID), "GET", FALSE, 0,
                StatusUnauthorized, ContentTypeJSON, MissingAuthToken, NilChecker),
    RestAPITest(constructURLForReportInfoForOrgCluster(knownOrganizationID, unknownClusterForOrganization1, UserID), "GET", FALSE, 0,
                StatusUnauthorized, ContentTypeJSON, MissingAuthToken, NilChecker),
    RestAPITest(constructURLForReportInfoForOrgCluster(unknownOrganizationID, knownClusterForOrganization1, UserID), "GET", FALSE, 0,
                StatusUnauthorized, ContentTypeJSON, MissingAuthToken, NilChecker),
    RestAPITest(constructURLForReportInfoForOrgCluster(unknownOrganizationID, unknownClusterForOrganization1, UserID), "GET", FALSE, 0,
                StatusUnauthorized, ContentTypeJSON, MissingAuthToken, NilChecker),
    RestAPITest(constructURLForReportInfoForOrgCluster(wrongOrganizationID, knownClusterForOrganization1, UserID), "GET", FALSE, 0,
                StatusUnauthorized, ContentTypeJSON, MissingAuthToken, NilChecker),
    RestAPITest(constructURLForReportInfoForOrgCluster(wrongOrganizationID, unknownClusterForOrganization1, UserID), "GET", FALSE, 0,
                StatusUnauthorized, ContentTypeJSON, MissingAuthToken, NilChecker),
    RestAPITest(constructURLForReportInfoForOrgCluster(knownOrganizationID, knownClusterForOrganization1, UserID), "POST", TRUE, 0,
                StatusMethodNotAllowed, None, None, NilChecker),
    RestAPITest(constructURLForReportInfoForOrgCluster(knownOrganizationID, knownClusterForOrganization1, UserID), "PUT", TRUE, 0,
                StatusMethodNotAllowed, None, None, NilChecker),
    RestAPITest(constructURLForReportInfoForOrgCluster(knownOrganizationID, knownClusterForOrganization1, UserID), "DELETE", TRUE, 0,
                StatusMethodNotAllowed, None, None, NilChecker),
    RestAPITest(constructURLForReportInfoForOrgCluster(knownOrganizationID, knownClusterForOrganization1, UserID), "PATCH", TRUE, 0,
                StatusMethodNotAllowed, None, None, NilChecker),
    RestAPITest(constructURLForReportInfoForOrgCluster(knownOrganizationID, knownClusterForOrganization1, UserID), "HEAD", TRUE, 0,
                StatusMethodNotAllowed, None, None, NilChecker),
    RestAPITest(constructURLForReportInfoForOrgCluster(knownOrganizationID, knownClusterForOrganization1, UserID), "OPTIONS", TRUE, 0,
                StatusOK, ContentTypeJSON, OkStatusResponse, NilChecker)
    >>

\* the table with every record a second time
Tests_Twice ==
    BasicTests \o ReportTests \o ReportInfoTests
    \o BasicTests \o ReportTests \o ReportInfoTests

\* var tests = []RestAPITest{...}
Tests == BasicTests \o ReportTests \o ReportInfoTests

\* what a service that behaves as the record expects answers to its request
ExpectedAnswer(t) ==
    Response(t.ExpectedStatus,
             IF t.AdditionalChecker = MetricsChecker THEN ContentTypeText
             ELSE t.ExpectedContentType,
             IF t.AdditionalChecker = InfoChecker
             THEN InfoBody(t.ExpectedResponseStatus, AllInfoKeys)
             ELSE IF t.ExpectedResponseStatus # None
                  THEN StatusBody(t.ExpectedResponseStatus)
                  ELSE MalformedBody)

\* an answer no record of the table expects anything of: status 500, no
\* Content-Type header, a body that is not JSON
WorstAnswer == Response(500, <<>>, MalformedBody)

\* answers given to every request alike
TableAnswers ==
    {NoResponse,
     WorstAnswer,
     Response(StatusOK, ContentTypeJSON, StatusBody(OkStatusResponse)),
     Response(StatusNotFound, ContentTypeText, UnreadableBody),
     Response(StatusNotFound, ContentTypeJSON, StatusBody(NotFoundOrg100000Cluster0))}

\* the services the table is run against: the one every record expects,
\* the ones that answer every request alike, and the expected one with one
\* case answered badly
TableServices ==
    {[i \in DOMAIN Tests |-> ExpectedAnswer(Tests[i])]}
    \cup {[i \in DOMAIN Tests |-> r] : r \in TableAnswers}
    \cup {[i \in DOMAIN Tests |-> IF i = k THEN WorstAnswer ELSE ExpectedAnswer(Tests[i])] :
            k \in DOMAIN Tests}

----------------------------------------------------------------------------
(* The state machine *)

Event(ev, errs) == [run |-> run, case |-> idx, ev |-> ev, errs |-> errs]

\* the errors a check added to the current object
NewErrs(st) == SubSeq(st.f.Errs, Len(f.Errs) + 1, Len(st.f.Errs))

Init ==
    /\ \E in \in Inputs : tests = in.tests /\ service = in.service
    /\ run = 0
    /\ idx = 0
    /\ pc = "main"
    /\ f = Create
    /\ Global = [NumRequest |-> 0, NumAsserts |-> 0, NumErrored |-> 0]
    /\ results = <<>>
    /\ exitCode = NoExit
    /\ trace = <<>>

\* RunAllTests changed to start every call with the error counter at zero
RunAllTests_ResetsCount ==
    /\ pc \in {"main", "returned"}
    /\ run < MaxRuns
    /\ run' = run + 1
    /\ IF Len(tests) = 0
       THEN idx' = 0 /\ pc' = "loopEnd"
       ELSE idx' = 1 /\ pc' = "pending"
    /\ Global' = [Global EXCEPT !.NumErrored = 0]
    /\ UNCHANGED <<tests, service, f, results, exitCode, trace>>

\* runAllTests is called (by main, or once more by a caller that runs the
\* table again): the range loop starts
RunAllTests ==
    /\ pc \in {"main", "returned"}
    /\ run < MaxRuns
    /\ run' = run + 1
    /\ IF Len(tests) = 0
       THEN idx' = 0 /\ pc' = "loopEnd"
       ELSE idx' = 1 /\ pc' = "pending"
    /\ UNCHANGED <<tests, service, f, Global, results, exitCode, trace>>

\* BuildRequest changed to let a non-zero organization attach the header
\* by itself
BuildRequest_OrgDecides(test) ==
    LET f0 == [Create EXCEPT !.Method = test.Method, !.Url = apiURL \o test.Endpoint]
    IN  IF test.AuthHeaderOrganization # 0
        THEN setAuthHeaderForOrganization(f0, test.AuthHeaderOrganization)
        ELSE IF test.AuthHeader THEN setAuthHeader(f0) ELSE f0

\* BuildRequest changed to pass AuthHeaderOrganization on as it is
BuildRequest_NoDefault(test) ==
    LET f0 == [Create EXCEPT !.Method = test.Method, !.Url = apiURL \o test.Endpoint]
    IN  IF test.AuthHeader
        THEN setAuthHeaderForOrganization(f0, test.AuthHeaderOrganization)
        ELSE f0

\* BuildRequest changed to join the base URL and the end point with one
\* slash, as a URL join does
BuildRequest_JoinPath(test) ==
    LET ep == IF test.Endpoint # <<>> /\ Head(test.Endpoint) = "/"
              THEN Tail(test.Endpoint) ELSE test.Endpoint
        f0 == [Create EXCEPT !.Method = test.Method, !.Url = apiURL \o ep]
    IN  IF test.AuthHeader
        THEN IF test.AuthHeaderOrganization # 0
             THEN setAuthHeaderForOrganization(f0, test.AuthHeaderOrganization)
             ELSE setAuthHeader(f0)
        ELSE f0

\* checkEndPoint up to Send: the Frisby object with its method, URL and
\* identity header
BuildRequest(test) ==
    LET f0 == [Create EXCEPT !.Method = test.Method, !.Url = apiURL \o test.Endpoint]
    IN  IF test.AuthHeader
        THEN IF test.AuthHeaderOrganization # 0
             THEN setAuthHeaderForOrganization(f0, test.AuthHeaderOrganization)
             ELSE setAuthHeader(f0)
        ELSE f0

\* Send changed to reuse the error list of the previous object
Send_KeepsErrs ==
    /\ pc = "pending"
    /\ LET f1 == BuildRequest(tests[idx])
           answer == service[idx]
       IN  f' = [f1 EXCEPT !.Resp = answer,
                           !.Errs = IF answer.exists THEN f.Errs ELSE Append(f.Errs, Err("send"))]
    /\ Global' = [Global EXCEPT !.NumRequest = @ + 1]
    /\ trace' = Append(trace, Event("send", <<>>))
    /\ pc' = "sent"
    /\ UNCHANGED <<tests, service, run, idx, results, exitCode>>

\* Frisby.Send: one more request; the answer is stored in the object, and a
\* transport error leaves the object without a response
Send ==
    /\ pc = "pending"
    /\ LET f1 == BuildRequest(tests[idx])
           answer == service[idx]
       IN  f' = [f1 EXCEPT !.Resp = answer,
                           !.Errs = IF answer.exists THEN @ ELSE Append(@, Err("send"))]
    /\ Global' = [Global EXCEPT !.NumRequest = @ + 1]
    /\ trace' = Append(trace, Event("send", <<>>))
    /\ pc' = "sent"
    /\ UNCHANGED <<tests, service, run, idx, results, exitCode>>

\* CheckStatus changed to leave checkEndPoint when the status differs
CheckStatus_ReturnOnFailure ==
    /\ pc = "sent"
    /\ \/ /\ ~f.Resp.exists
          /\ pc' = "panicked"
          /\ exitCode' = PanicExit
          /\ UNCHANGED <<f, Global, trace>>
       \/ /\ f.Resp.exists
          /\ LET st == ExpectStatus([f |-> f, Global |-> Global], tests[idx].ExpectedStatus)
             IN  /\ f' = st.f
                 /\ Global' = st.Global
                 /\ trace' = Append(trace, Event("status", NewErrs(st)))
                 /\ pc' = IF NewErrs(st) # <<>> THEN "reported" ELSE "statusChecked"
          /\ UNCHANGED exitCode
    /\ UNCHANGED <<tests, service, run, idx, results>>

\* f.ExpectStatus(test.ExpectedStatus); reading the status of a response
\* that does not exist is a nil dereference, which ends the process
CheckStatus ==
    /\ pc = "sent"
    /\ \/ /\ ~f.Resp.exists
          /\ pc' = "panicked"
          /\ exitCode' = PanicExit
          /\ UNCHANGED <<f, Global, trace>>
       \/ /\ f.Resp.exists
          /\ LET st == ExpectStatus([f |-> f, Global |-> Global], tests[idx].ExpectedStatus)
             IN  /\ f' = st.f
                 /\ Global' = st.Global
                 /\ trace' = Append(trace, Event("status", NewErrs(st)))
          /\ pc' = "statusChecked"
          /\ UNCHANGED exitCode
    /\ UNCHANGED <<tests, service, run, idx, results>>

\* CheckContentType changed to skip the check once the case has failed
CheckContentType_SkipAfterFailure ==
    /\ pc = "statusChecked"
    /\ IF tests[idx].ExpectedContentType # None /\ f.Errs = <<>>
       THEN LET st == ExpectHeader([f |-> f, Global |-> Global], tests[idx].ExpectedContentType)
            IN  /\ f' = st.f
                /\ Global' = st.Global
                /\ trace' = Append(trace, Event("header", NewErrs(st)))
       ELSE UNCHANGED <<f, Global, trace>>
    /\ pc' = "headerChecked"
    /\ UNCHANGED <<tests, service, run, idx, results, exitCode>>

\* CheckContentType changed to inspect the header for every case
CheckContentType_Always ==
    /\ pc = "statusChecked"
    /\ LET st == ExpectHeader([f |-> f, Global |-> Global], tests[idx].ExpectedContentType)
       IN  /\ f' = st.f
           /\ Global' = st.Global
           /\ trace' = Append(trace, Event("header", NewErrs(st)))
    /\ pc' = "headerChecked"
    /\ UNCHANGED <<tests, service, run, idx, results, exitCode>>

\* if test.ExpectedContentType != None { f.ExpectHeader(...) }
CheckContentType ==
    /\ pc = "statusChecked"
    /\ IF tests[idx].ExpectedContentType # None
       THEN LET st == ExpectHeader([f |-> f, Global |-> Global], tests[idx].ExpectedContentType)
            IN  /\ f' = st.f
                /\ Global' = st.Global
                /\ trace' = Append(trace, Event("header", NewErrs(st)))
       ELSE UNCHANGED <<f, Global, trace>>
    /\ pc' = "headerChecked"
    /\ UNCHANGED <<tests, service, run, idx, results, exitCode>>

\* CheckAdditional changed to run after the JSON status check: both checks
\* are made here, the additional checker last
CheckAdditional_AfterJSON ==
    /\ pc = "headerChecked"
    /\ LET st0 == [f |-> f, Global |-> Global]
           t == tests[idx]
           st1 == IF t.ExpectedResponseStatus # None
                  THEN statusResponseChecker(st0, t.ExpectedResponseStatus)
                  ELSE st0
           st2 == IF t.AdditionalChecker # NilChecker
                  THEN CallChecker(t.AdditionalChecker, st1)
                  ELSE st1
           ev1 == IF t.ExpectedResponseStatus # None
                  THEN <<Event("json", NewErrs(st1))>>
                  ELSE <<>>
           ev2 == IF t.AdditionalChecker # NilChecker
                  THEN <<Event("additional", SubSeq(st2.f.Errs, Len(st1.f.Errs) + 1, Len(st2.f.Errs)))>>
                  ELSE <<>>
       IN  /\ f' = st2.f
           /\ Global' = st2.Global
           /\ trace' = trace \o ev1 \o ev2
    /\ pc' = "validated"
    /\ UNCHANGED <<tests, service, run, idx, results, exitCode>>

\* CheckAdditional changed to keep the checker's failures out of the global
\* counters
CheckAdditional_LocalOnly ==
    /\ pc = "headerChecked"
    /\ IF tests[idx].AdditionalChecker # NilChecker
       THEN LET st == CallChecker(tests[idx].AdditionalChecker, [f |-> f, Global |-> Global])
            IN  /\ f' = st.f
                /\ Global' = Global
                /\ trace' = Append(trace, Event("additional", NewErrs(st)))
       ELSE UNCHANGED <<f, Global, trace>>
    /\ pc' = "additionalChecked"
    /\ UNCHANGED <<tests, service, run, idx, results, exitCode>>

\* if test.AdditionalChecker != nil { test.AdditionalChecker(f) }
CheckAdditional ==
    /\ pc = "headerChecked"
    /\ IF tests[idx].AdditionalChecker # NilChecker
       THEN LET st == CallChecker(tests[idx].AdditionalChecker, [f |-> f, Global |-> Global])
            IN  /\ f' = st.f
                /\ Global' = st.Global
                /\ trace' = Append(trace, Event("additional", NewErrs(st)))
       ELSE UNCHANGED <<f, Global, trace>>
    /\ pc' = "additionalChecked"
    /\ UNCHANGED <<tests, service, run, idx, results, exitCode>>

\* if test.ExpectedResponseStatus != None { statusResponseChecker(...) }
CheckResponseStatus ==
    /\ pc = "additionalChecked"
    /\ IF tests[idx].ExpectedResponseStatus # None
       THEN LET st == statusResponseChecker([f |-> f, Global |-> Global],
                                            tests[idx].ExpectedResponseStatus)
            IN  /\ f' = st.f
                /\ Global' = st.Global
                /\ trace' = Append(trace, Event("json", NewErrs(st)))
       ELSE UNCHANGED <<f, Global, trace>>
    /\ pc' = "validated"
    /\ UNCHANGED <<tests, service, run, idx, results, exitCode>>

\* f.PrintReport(): the errors of the object are printed
PrintReport ==
    /\ pc = "validated"
    /\ trace' = Append(trace, Event("report", f.Errs))
    /\ pc' = "reported"
    /\ UNCHANGED <<tests, service, run, idx, f, Global, results, exitCode>>

\* NextTest changed to end the loop at the first case that failed
NextTest_StopOnFailure ==
    /\ pc = "reported"
    /\ IF idx < Len(tests) /\ f.Errs = <<>>
       THEN idx' = idx + 1 /\ pc' = "pending"
       ELSE idx' = idx /\ pc' = "loopEnd"
    /\ UNCHANGED <<tests, service, run, f, Global, results, exitCode, trace>>

\* the range loop of runAllTests goes to the next record, or ends
NextTest ==
    /\ pc = "reported"
    /\ IF idx < Len(tests)
       THEN idx' = idx + 1 /\ pc' = "pending"
       ELSE idx' = idx /\ pc' = "loopEnd"
    /\ UNCHANGED <<tests, service, run, f, Global, results, exitCode, trace>>

\* Return changed to return the number of assertions made
Return_NumAsserts ==
    /\ pc = "loopEnd"
    /\ trace' = Append(trace, [run |-> run, case |-> 0, ev |-> "summary", errs |-> <<>>])
    /\ results' = Append(results, Global.NumAsserts)
    /\ pc' = "returned"
    /\ UNCHANGED <<tests, service, run, idx, f, Global, exitCode>>

\* frisby.Global.PrintReport(); return frisby.Global.NumErrored
Return ==
    /\ pc = "loopEnd"
    /\ trace' = Append(trace, [run |-> run, case |-> 0, ev |-> "summary", errs |-> <<>>])
    /\ results' = Append(results, Global.NumErrored)
    /\ pc' = "returned"
    /\ UNCHANGED <<tests, service, run, idx, f, Global, exitCode>>

\* os.Exit(runAllTests(tests))
Exit ==
    /\ pc = "returned"
    /\ exitCode' = results[Len(results)] % ExitWidth
    /\ pc' = "exited"
    /\ UNCHANGED <<tests, service, run, idx, f, Global, results, trace>>

Next ==
    \/ RunAllTests
    \/ Send
    \/ CheckStatus
    \/ CheckContentType
    \/ CheckAdditional
    \/ CheckResponseStatus
    \/ PrintReport
    \/ NextTest
    \/ Return
    \/ Exit

Spec == Init /\ [][Next]_vars

\* the process is sequential and never waits: a step that can be taken is taken
FairSpec == Spec /\ WF_vars(Next)

\* the program started on a one-record table of CaseInputs
CaseInit ==
    /\ \E in \in CaseInputs : tests = in.tests /\ service = in.service
    /\ run = 0
    /\ idx = 0
    /\ pc = "main"
    /\ f = Create
    /\ Global = [NumRequest |-> 0, NumAsserts |-> 0, NumErrored |-> 0]
    /\ results = <<>>
    /\ exitCode = NoExit
    /\ trace = <<>>

CaseSpec == CaseInit /\ [][Next]_vars

\* the program started on the table of rest_api_tests.go
TableInit ==
    /\ tests = Tests
    /\ service \in TableServices
    /\ run = 0
    /\ idx = 0
    /\ pc = "main"
    /\ f = Create
    /\ Global = [NumRequest |-> 0, NumAsserts |-> 0, NumErrored |-> 0]
    /\ results = <<>>
    /\ exitCode = NoExit
    /\ trace = <<>>

TableSpec == TableInit /\ [][Next]_vars

TypeOK ==
    /\ run \in 0..MaxRuns
    /\ idx \in 0..Len(tests)
    /\ Len(service) = Len(tests)
    /\ Len(results) <= run
    /\ Global.NumErrored >= 0

----------------------------------------------------------------------------
(* Reading the history *)

\* the events of call r of runAllTests
RunTrace(r) ==
    LET InRun(e) == e.run = r
    IN  SelectSeq(trace, InRun)

\* the events of case i in call r
CaseTrace(r, i) ==
    LET InCase(e) == e.run = r /\ e.case = i
    IN  SelectSeq(trace, InCase)

\* the names of the events of a history
Evs(s) == [k \in DOMAIN s |-> s[k].ev]

\* a history without its checks: what was sent, reported and summarised
Milestones(s) ==
    LET IsMilestone(e) == e.ev \in {"send", "report", "summary"}
        m == SelectSeq(s, IsMilestone)
    IN  [k \in DOMAIN m |-> <<m[k].case, m[k].ev>>]

\* the checks of a history
Checks(s) ==
    LET IsCheck(e) == e.ev \in {"status", "header", "additional", "json"}
    IN  SelectSeq(s, IsCheck)

IsPrefix(s, t) == Len(s) <= Len(t) /\ s = SubSeq(t, 1, Len(s))

RECURSIVE Flatten(_)
Flatten(s) == IF s = <<>> THEN <<>> ELSE Head(s).errs \o Flatten(Tail(s))

\* send and report of the cases 1..n, in table order
RECURSIVE InOrder(_)
InOrder(n) ==
    IF n = 0 THEN <<>> ELSE InOrder(n - 1) \o << <<n, "send">>, <<n, "report">> >>

\* the checks a record asks for, in the order of the validator
ChecksOf(t) ==
    <<"status">>
    \o (IF t.ExpectedContentType # None THEN <<"header">> ELSE <<>>)
    \o (IF t.AdditionalChecker # NilChecker THEN <<"additional">> ELSE <<>>)
    \o (IF t.ExpectedResponseStatus # None THEN <<"json">> ELSE <<>>)

HasKind(errs, kinds) == \E k \in DOMAIN errs : errs[k].kind \in kinds

\* the calls of runAllTests that have returned
Returned == 1..Len(results)

\* the process has ended: by os.Exit, by a panic, or the last call returned
Ended == pc \in {"exited", "panicked"} \/ (pc = "returned" /\ run = MaxRuns)

----------------------------------------------------------------------------
(* C1: runAllTests processes the cases strictly in table order, each case  *)
(* exactly once; a case is sent, validated and reported before the next    *)
(* case's request is sent, however many failures earlier cases recorded;   *)
(* the summary is produced only after the last case has been reported.     *)
(* Whenever every request is answered by the service, the run is not cut   *)
(* short.                                                                  *)
C1_TableOrderExactlyOnce ==
    /\ \A r \in 1..run :
        /\ IsPrefix(Milestones(RunTrace(r)), InOrder(Len(tests)) \o << <<0, "summary">> >>)
        /\ \A j, k \in DOMAIN RunTrace(r) :
              (j < k /\ RunTrace(r)[k].ev # "summary")
                  => RunTrace(r)[j].case <= RunTrace(r)[k].case
        /\ r \in Returned
              => Milestones(RunTrace(r)) = InOrder(Len(tests)) \o << <<0, "summary">> >>
    /\ pc = "panicked" => \E i \in DOMAIN service : ~service[i].exists

C1_Witness ==
    /\ pc = "returned"
    /\ Len(tests) = 2
    /\ \E k \in DOMAIN trace :
          trace[k].ev = "report" /\ trace[k].case = 1 /\ Len(trace[k].errs) >= 2

(* C2: if sending a case's request fails at the transport level, the       *)
(* failure is recorded against that case, the case is still reported, and  *)
(* every remaining case of the table is still attempted: the run is not    *)
(* aborted.                                                                *)
C2_TransportFailureDoesNotAbort ==
    Ended =>
        \A i \in DOMAIN tests :
            (~service[i].exists /\ \E k \in DOMAIN trace : trace[k].case = i /\ trace[k].ev = "send")
                => /\ \E k \in DOMAIN trace :
                        /\ trace[k].case = i
                        /\ trace[k].ev = "report"
                        /\ trace[k].errs # <<>>
                   /\ \A j \in (i + 1)..Len(tests) :
                        \E k \in DOMAIN trace : trace[k].case = j /\ trace[k].ev = "send"

(* C3: every case goes through Pending, Sent, Validated, Reported in that  *)
(* order and, whatever failures its checks record, reaches Reported: its   *)
(* report is printed exactly once, after all of its checks.                *)
Stage ==
    CASE pc = "pending" -> "Pending"
      [] pc \in {"sent", "statusChecked", "headerChecked", "additionalChecked"} -> "Sent"
      [] pc = "validated" -> "Validated"
      [] pc = "reported" -> "Reported"
      [] OTHER -> "Outside"

StageStep ==
    /\ Stage' # Stage =>
          \/ Stage = "Pending" /\ Stage' = "Sent"
          \/ Stage = "Sent" /\ Stage' = "Validated"
          \/ Stage = "Validated" /\ Stage' = "Reported"
          \/ Stage = "Reported" /\ Stage' \in {"Pending", "Outside"}
          \/ Stage = "Outside" /\ Stage' = "Pending"
          \/ Stage = "Sent" /\ ~f.Resp.exists /\ pc' = "panicked"
    /\ Stage \in {"Pending", "Sent", "Validated"} => idx' = idx /\ run' = run

ReportedOnce ==
    /\ \A r \in 1..run : \A i \in DOMAIN tests :
          Cardinality({k \in DOMAIN CaseTrace(r, i) : CaseTrace(r, i)[k].ev = "report"}) <= 1
    /\ pc = "reported" =>
          /\ trace # <<>>
          /\ trace[Len(trace)] = [run |-> run, case |-> idx, ev |-> "report", errs |-> f.Errs]
          /\ Evs(CaseTrace(run, idx))[1] = "send"

C3_AlwaysReported ==
    /\ []ReportedOnce
    /\ [][StageStep]_vars
    /\ (pc = "pending" /\ service[idx].exists) ~> (pc = "reported")

C3_Witness ==
    /\ pc = "reported"
    /\ HasKind(f.Errs, {"status"})
    /\ HasKind(f.Errs, {"header"})
    /\ HasKind(f.Errs, {"prefix", "infoStatus"})
    /\ HasKind(f.Errs, {"jsonStatus"})

\* the failures recorded by the checks of call r
FailuresOfRun(r) == Flatten(Checks(RunTrace(r)))

(* C4: on a fresh process runAllTests returns 0, and the process exits     *)
(* with status 0, if and only if no check of any case recorded a failure.  *)
C4_ZeroIffNoFailure ==
    /\ 1 \in Returned => (results[1] = 0 <=> FailuresOfRun(1) = <<>>)
    /\ (pc = "exited" /\ run = 1) => (exitCode = 0 <=> FailuresOfRun(1) = <<>>)

C4_Witness ==
    /\ pc = "exited"
    /\ run = 1
    /\ exitCode # 0
    /\ Len(FailuresOfRun(1)) = 1

\* the cases of call r whose report lists at least one failure
FailedCases(r) ==
    {i \in DOMAIN tests :
        \E k \in DOMAIN trace :
            /\ trace[k].run = r
            /\ trace[k].case = i
            /\ trace[k].ev = "report"
            /\ trace[k].errs # <<>>}

(* C5 as stated: the value returned by runAllTests equals the number of    *)
(* cases that recorded at least one failure.                               *)
C5_CountsFailedCases ==
    1 \in Returned => results[1] = Cardinality(FailedCases(1))

(* C5, amended: the value returned by the call of runAllTests that main    *)
(* makes equals the number of failures recorded by all cases together: a   *)
(* case counts once for every failure it recorded.                         *)
C5_CountsFailures ==
    1 \in Returned => results[1] = Len(FailuresOfRun(1))

C5_Witness ==
    /\ pc = "returned"
    /\ run = 1
    /\ Cardinality(FailedCases(1)) = 1
    /\ results[1] >= 2

(* C6: two calls of runAllTests on the same table, the service answering   *)
(* the same both times, return the same failure count; the error counter   *)
(* of a run starts at zero for that run.                                   *)
C6_SameCountBothRuns ==
    /\ 2 \in Returned => results[2] = results[1]
    /\ (pc = "pending" /\ idx = 1) => Global.NumErrored = 0

(* C7: within a case the checks run in the order status, content type (if  *)
(* expectedContentType is non-empty), additional checker (if provided),    *)
(* JSON status (if expectedResponseStatus is non-empty); none runs before  *)
(* the request is sent, none after the report is printed.                  *)
C7_CheckOrder ==
    \A r \in 1..run : \A i \in DOMAIN tests :
        IsPrefix(Evs(CaseTrace(r, i)), <<"send">> \o ChecksOf(tests[i]) \o <<"report">>)

C7_Witness ==
    /\ pc = "reported"
    /\ Evs(CaseTrace(run, idx)) = <<"send", "status", "header", "additional", "json", "report">>

(* C8: a failure recorded by one check never suppresses a later check of   *)
(* the same case: every check the record enables has run when the case is  *)
(* reported, and the report lists the failures of all of them.             *)
C8_FailuresDoNotSuppress ==
    \A k \in DOMAIN trace :
        trace[k].ev = "report" =>
            LET checks == Checks(CaseTrace(trace[k].run, trace[k].case))
            IN  /\ Range(Evs(checks)) = Range(ChecksOf(tests[trace[k].case]))
                /\ Len(checks) = Len(ChecksOf(tests[trace[k].case]))
                /\ trace[k].errs = Flatten(checks)

C8_Witness ==
    /\ pc = "reported"
    /\ LET checks == Checks(CaseTrace(run, idx))
       IN  /\ Len(checks) >= 3
           /\ \A k \in DOMAIN checks : checks[k].errs # <<>>

(* C9: when expectedResponseStatus is non-empty and the body cannot be     *)
(* parsed, the parse failure is recorded, and the status comparison is     *)
(* made only when parsing succeeded: a parse failure gives exactly one     *)
(* failure from this check.                                                *)
C9_ParseFailureOnly ==
    \A k \in DOMAIN trace :
        (trace[k].ev = "json" /\ HasKind(trace[k].errs, {"content", "unmarshal"}))
            => Len(trace[k].errs) = 1

\* the status check can decode the body of case i
StatusParses(i) ==
    LET b == service[i].Body
    IN  b.read /\ b.kind = "object" /\ b.status.type # "other"

\* the status member of the body of case i is exactly s
BodyStatusIs(i, s) ==
    LET b == service[i].Body
    IN  b.status.type = "string" /\ b.status.val = s

(* C10: for a body that parses, the JSON status check records a failure if *)
(* and only if expectedResponseStatus is non-empty and the body's status   *)
(* is not exactly equal to it; with expectedResponseStatus empty the body  *)
(* is neither parsed nor compared by this check.                           *)
C10_ExactStatusMatch ==
    \A k \in DOMAIN trace :
        trace[k].ev = "report" =>
            LET i == trace[k].case
                json == LET IsJSON(e) == e.ev = "json"
                        IN  SelectSeq(CaseTrace(trace[k].run, i), IsJSON)
            IN  /\ StatusParses(i) =>
                      (HasKind(Flatten(json), {"jsonStatus"})
                          <=> /\ tests[i].ExpectedResponseStatus # None
                              /\ ~BodyStatusIs(i, tests[i].ExpectedResponseStatus))
                /\ tests[i].ExpectedResponseStatus = None => json = <<>>
                /\ tests[i].ExpectedResponseStatus # None => Len(json) = 1

C10_Witness ==
    /\ pc = "reported"
    /\ tests[idx].ExpectedResponseStatus = OkStatusResponse
    /\ BodyStatusIs(idx, Okay)
    /\ Contains(Okay, tests[idx].ExpectedResponseStatus)
    /\ HasKind(f.Errs, {"jsonStatus"})

----------------------------------------------------------------------------
\* the events named ev of the case that the report at position k closes
EventsOf(k, ev) ==
    LET Is(e) == e.ev = ev
    IN  SelectSeq(CaseTrace(trace[k].run, trace[k].case), Is)

----------------------------------------------------------------------------
(* Reading the identity header back, as its receiver does: base64 decoding *)
(* and the members of the JSON text                                        *)

\* the identity headers of the current request
IdentityHeaders == {h \in f.Headers : h[1] = authHeaderName}

IdentityValue == (CHOOSE h \in IdentityHeaders : TRUE)[2]

\* the request of the current case has been sent
RequestSent == pc = "sent"

\* the six bits of every character of a base64 text, 0 for the padding
Sextets(s) ==
    [k \in 1..Len(s) |->
        IF s[k] = "=" THEN 0 ELSE (CHOOSE n \in 1..Len(encodeStd) : encodeStd[n] = s[k]) - 1]

\* base64 decoding: every group of four characters gives three bytes, less
\* one for every "=" of the padding
DecodeString(s) ==
    LET v == Sextets(s)
        padding == Cardinality({k \in 1..Len(s) : s[k] = "="})
    IN  [k \in 1..(3 * (Len(s) \div 4) - padding) |->
            LET g == 4 * ((k - 1) \div 3)
                byte == CASE (k - 1) % 3 = 0 -> v[g + 1] * 4 + v[g + 2] \div 16
                          [] (k - 1) % 3 = 1 -> (v[g + 2] % 16) * 16 + v[g + 3] \div 4
                          [] OTHER -> (v[g + 3] % 4) * 64 + v[g + 4]
            IN  Ascii[byte - 31]]

Quote == "\""

\* position i is outside of every string of the text
Outside(text, i) ==
    Cardinality({k \in 1..(i - 1) : text[k] = Quote}) % 2 = 0

\* the quote that closes the string opened at i (0: none)
CloseOf(text, i) ==
    LET later == {j \in (i + 1)..Len(text) : text[j] = Quote}
    IN  IF later = {} THEN 0 ELSE CHOOSE j \in later : \A k \in later : j <= k

\* the first position from i on that holds no space
AfterSpaces(text, i) ==
    LET stops == {j \in i..(Len(text) + 1) : j = Len(text) + 1 \/ text[j] # " "}
    IN  CHOOSE j \in stops : \A k \in stops : j <= k

\* a string opens at i and names a member: a colon follows it
IsKey(text, i) ==
    /\ text[i] = Quote
    /\ Outside(text, i)
    /\ CloseOf(text, i) # 0
    /\ LET c == AfterSpaces(text, CloseOf(text, i) + 1)
       IN  c <= Len(text) /\ text[c] = ":"

\* the number of objects that are open at position i
Depth(text, i) ==
    LET Braces(b) == {k \in 1..(i - 1) : text[k] = b /\ Outside(text, k)}
    IN  Cardinality(Braces("{")) - Cardinality(Braces("}"))

\* the names of the members found d objects deep (1: the top level)
Members(text, d) ==
    {SubSeq(text, i + 1, CloseOf(text, i) - 1) :
        i \in {k \in 1..Len(text) : IsKey(text, k) /\ Depth(text, k) = d}}

\* the text of the member called name, whose value is a string
StringMember(text, name) ==
    LET i == CHOOSE k \in 1..Len(text) :
                 IsKey(text, k) /\ SubSeq(text, k + 1, CloseOf(text, k) - 1) = name
        colon == AfterSpaces(text, CloseOf(text, i) + 1)
        open == AfterSpaces(text, colon + 1)
    IN  SubSeq(text, open + 1, CloseOf(text, open) - 1)

\* the number written in decimal digits
RECURSIVE ParseNat(_)
ParseNat(s) ==
    IF s = <<>> THEN 0
    ELSE 10 * ParseNat(SubSeq(s, 1, Len(s) - 1)) + (Ord(s[Len(s)]) - Ord("0"))

Atoi(s) == IF Head(s) = "-" THEN 0 - ParseNat(Tail(s)) ELSE ParseNat(s)

OrgIdName == <<"o", "r", "g", "_", "i", "d">>
AccountNumberName ==
    <<"a", "c", "c", "o", "u", "n", "t", "_", "n", "u", "m", "b", "e", "r">>
IdentityName == <<"i", "d", "e", "n", "t", "i", "t", "y">>
InternalName == <<"i", "n", "t", "e", "r", "n", "a", "l">>

(* C12: when a record's AuthHeader is false, the request sent for it       *)
(* carries no identity header, whatever its AuthHeaderOrganization is.     *)
C12_NoHeaderWithoutAuth ==
    (RequestSent /\ ~tests[idx].AuthHeader) => IdentityHeaders = {}

C12_Witness ==
    /\ RequestSent
    /\ ~tests[idx].AuthHeader
    /\ tests[idx].AuthHeaderOrganization = 100000
    /\ IdentityHeaders = {}

(* C13: when a record's AuthHeader is true, the request carries exactly    *)
(* one identity header, and the organization it encodes is 1 when          *)
(* AuthHeaderOrganization is 0 and AuthHeaderOrganization itself for       *)
(* every other value, negative values included.                            *)
C13_EncodedOrganization ==
    (RequestSent /\ tests[idx].AuthHeader) =>
        /\ Cardinality(IdentityHeaders) = 1
        /\ Atoi(StringMember(DecodeString(IdentityValue), OrgIdName))
              = IF tests[idx].AuthHeaderOrganization = 0
                THEN 1
                ELSE tests[idx].AuthHeaderOrganization

C13_Witness ==
    /\ RequestSent
    /\ tests[idx].AuthHeader
    /\ tests[idx].AuthHeaderOrganization < 0
    /\ Cardinality(IdentityHeaders) = 1
    /\ Head(StringMember(DecodeString(IdentityValue), OrgIdName)) = "-"

\* the JSON text carried by the identity header of the current request
Payload == DecodeString(IdentityValue)

\* the organization the header of the current request is built for
HeaderOrganization ==
    IF tests[idx].AuthHeaderOrganization = 0 THEN 1 ELSE tests[idx].AuthHeaderOrganization

(* C14 as stated: the payload built for organization N is a JSON object    *)
(* with exactly two top-level members, "identity" (an object whose only    *)
(* member "internal" holds "org_id": "N") and, as a sibling of "identity", *)
(* "account_number".                                                       *)
C14_AccountNumberSibling ==
    (RequestSent /\ tests[idx].AuthHeader) =>
        /\ Members(Payload, 1) = {IdentityName, AccountNumberName}
        /\ Members(Payload, 2) = {InternalName}
        /\ Members(Payload, 3) = {OrgIdName}

(* C14 amended: the payload built for organization N is a JSON object with *)
(* exactly one top-level member, "identity"; "identity" is an object with  *)
(* exactly two members, "internal" (an object whose only member is         *)
(* "org_id", the decimal text of N) and "account_number" (the fixed        *)
(* account number): "account_number" is nested inside "identity", next to  *)
(* "internal".                                                             *)
C14_AccountNumberInsideIdentity ==
    (RequestSent /\ tests[idx].AuthHeader) =>
        LET p == Payload
        IN  /\ Depth(p, Len(p) + 1) = 0
            /\ Members(p, 1) = {IdentityName}
            /\ Members(p, 2) = {InternalName, AccountNumberName}
            /\ Members(p, 3) = {OrgIdName}
            /\ \A k \in 1..Len(p) : IsKey(p, k) => Depth(p, k) <= 3
            /\ Atoi(StringMember(p, OrgIdName)) = HeaderOrganization
            /\ StringMember(p, AccountNumberName) = accountNumber

C14_Witness ==
    /\ RequestSent
    /\ tests[idx].AuthHeader
    /\ tests[idx].AuthHeaderOrganization = 100000
    /\ AccountNumberName \in Members(Payload, 2)
    /\ AccountNumberName \notin Members(Payload, 1)

----------------------------------------------------------------------------
\* the failures of a record whose request got the answer r, when the case
\* is the first one of a process that has recorded nothing yet
AloneErrs(t, r) ==
    LET s0 == [f |-> [BuildRequest(t) EXCEPT !.Resp = r],
               Global |-> [NumRequest |-> 1, NumAsserts |-> 0, NumErrored |-> 0]]
        s1 == ExpectStatus(s0, t.ExpectedStatus)
        s2 == IF t.ExpectedContentType # None
              THEN ExpectHeader(s1, t.ExpectedContentType) ELSE s1
        s3 == IF t.AdditionalChecker # NilChecker
              THEN CallChecker(t.AdditionalChecker, s2) ELSE s2
        s4 == IF t.ExpectedResponseStatus # None
              THEN statusResponseChecker(s3, t.ExpectedResponseStatus) ELSE s3
    IN  s4.f.Errs

\* the failures reported for a case depend on its record and answer only
SameFailuresAnywhere ==
    \A k \in DOMAIN trace :
        trace[k].ev = "report" =>
            /\ trace[k].errs = AloneErrs(tests[trace[k].case], service[trace[k].case])
            /\ \A j \in 1..(k - 1) :
                  (/\ trace[j].ev = "report"
                   /\ tests[trace[j].case] = tests[trace[k].case]
                   /\ service[trace[j].case] = service[trace[k].case])
                      => trace[j].errs = trace[k].errs

(* C15: the failures recorded for a case are determined by its own record  *)
(* and the response to its own request: the case records the same failures *)
(* as the first case of a fresh process and as every earlier occurrence of *)
(* the same record with the same response, whatever the cases before it    *)
(* recorded; and no step of the run changes a record of the table.         *)
C15_CasesIndependent ==
    /\ []SameFailuresAnywhere
    /\ [][tests' = tests]_vars

\* the second case of the second call repeats the first case, after three
\* cases that recorded failures, and reports failures of its own
C15_Witness ==
    /\ pc = "reported"
    /\ run = 2
    /\ idx = 2
    /\ tests[1] = tests[2]
    /\ service[1] = service[2]
    /\ Len(f.Errs) >= 2
    /\ Global.NumErrored > Len(f.Errs)

----------------------------------------------------------------------------
\* the reports of the case "foobar" of the table
IsFoobar(t) ==
    /\ t.Endpoint = <<"f", "o", "o", "b", "a", "r">>
    /\ t.Method = "GET"
    /\ t.AuthHeader
    /\ t.ExpectedStatus = StatusNotFound

FoobarReports ==
    {k \in DOMAIN trace : trace[k].ev = "report" /\ IsFoobar(tests[trace[k].case])}

(* C16 as stated: the case GET "foobar" of the table passes if and only if *)
(* the service answers 404; no content-type check and no JSON status check *)
(* is made for it.                                                         *)
C16_FoobarStatusOnly ==
    \A k \in FoobarReports :
        /\ trace[k].errs = <<>> <=> service[trace[k].case].StatusCode = StatusNotFound
        /\ EventsOf(k, "header") = <<>>
        /\ EventsOf(k, "json") = <<>>

(* C16 amended: the case GET "foobar" of the table passes if and only if   *)
(* the service answers 404 with the Content-Type header exactly            *)
(* "text/plain; charset=utf-8"; the content-type check is made for it      *)
(* once, no additional checker and no JSON status check is run.            *)
C16_FoobarStatusAndContentType ==
    \A k \in FoobarReports :
        /\ trace[k].errs = <<>>
              <=> /\ service[trace[k].case].StatusCode = StatusNotFound
                  /\ service[trace[k].case].ContentType = ContentTypeText
        /\ Len(EventsOf(k, "header")) = 1
        /\ EventsOf(k, "additional") = <<>>
        /\ EventsOf(k, "json") = <<>>

\* the service answered 404 with another content type, and the case failed
C16_Witness ==
    /\ pc = "reported"
    /\ IsFoobar(tests[idx])
    /\ f.Resp.StatusCode = StatusNotFound
    /\ f.Resp.ContentType = ContentTypeJSON
    /\ Len(f.Errs) = 1
    /\ HasKind(f.Errs, {"header"})

----------------------------------------------------------------------------
\* the body of an answer decodes into InfoResponse without an error
ParsesAsInfo(r) ==
    /\ r.Body.read
    /\ r.Body.kind = "object"
    /\ r.Body.status.type # "other"
    /\ r.Body.info.type # "other"

\* the status text and the mapping of a body that parses
StatusOfBody(r) == IF r.Body.status.type = "string" THEN r.Body.status.val ELSE <<>>
MappingOfBody(r) == IF r.Body.info.type = "map" THEN r.Body.info.keys ELSE {}

\* how many errors of a list satisfy a condition
CountKind(errs, kind) == Cardinality({n \in DOMAIN errs : errs[n].kind = kind})
CountKey(errs, key) ==
    Cardinality({n \in DOMAIN errs : errs[n].kind = "infoKey" /\ errs[n].key = key})

(* C17: for a response body that parses as JSON, the info checker records  *)
(* exactly one failure for each of the six expected keys that is absent    *)
(* from the mapping, one more if the status is not exactly "ok", one more  *)
(* if the mapping is empty, and nothing else; a missing key does not stop  *)
(* the checks of the remaining keys; it records no failure exactly when    *)
(* the status is "ok" and all six keys are present.                        *)
C17_InfoChecker ==
    \A k \in DOMAIN trace :
        (/\ trace[k].ev = "additional"
         /\ tests[trace[k].case].AdditionalChecker = InfoChecker
         /\ ParsesAsInfo(service[trace[k].case])) =>
            LET errs == trace[k].errs
                r == service[trace[k].case]
                absent == AllInfoKeys \ MappingOfBody(r)
            IN  /\ Cardinality(AllInfoKeys) = 6
                /\ \A key \in AllInfoKeys :
                      CountKey(errs, key) = IF key \in absent THEN 1 ELSE 0
                /\ CountKind(errs, "infoKey") = Cardinality(absent)
                /\ CountKind(errs, "infoStatus")
                      = IF StatusOfBody(r) # OkStatusResponse THEN 1 ELSE 0
                /\ CountKind(errs, "infoEmpty") = IF MappingOfBody(r) = {} THEN 1 ELSE 0
                /\ Len(errs) = CountKind(errs, "infoKey") + CountKind(errs, "infoStatus")
                                  + CountKind(errs, "infoEmpty")
                /\ errs = <<>> <=> (StatusOfBody(r) = OkStatusResponse /\ absent = {})

\* two keys are missing after the first one, and both are recorded, next to
\* the failure of the status
C17_Witness ==
    /\ pc = "additionalChecked"
    /\ tests[idx].AdditionalChecker = InfoChecker
    /\ ParsesAsInfo(f.Resp)
    /\ StatusOfBody(f.Resp) = Okay
    /\ AllInfoKeys \ MappingOfBody(f.Resp) = {"BuildCommit", "UtilsVersion"}
    /\ CountKind(f.Errs, "infoKey") = 2
    /\ CountKind(f.Errs, "infoStatus") = 1

----------------------------------------------------------------------------
\* the failures a checker records for the answer r on a new object
CheckerErrs(checker, r) ==
    CallChecker(checker,
                [f |-> [Create EXCEPT !.Resp = r],
                 Global |-> [NumRequest |-> 1, NumAsserts |-> 0, NumErrored |-> 0]]).f.Errs

\* t holds s as a block of consecutive elements
HasBlock(t, s) ==
    \E p \in 0..(Len(t) - Len(s)) : SubSeq(t, p + 1, p + Len(s)) = s

(* C18: a case with an additional checker has it invoked exactly once, on  *)
(* the response to the case's own request; the failures it records are     *)
(* part of the case's report and of the global failure count; a case       *)
(* without an additional checker has nothing invoked and no failure        *)
(* recorded at that step.                                                  *)
C18_AdditionalChecker ==
    /\ Global.NumErrored = Len(Flatten(Checks(trace)))
    /\ \A k \in DOMAIN trace :
          trace[k].ev = "report" =>
              LET t == tests[trace[k].case]
                  adds == EventsOf(k, "additional")
              IN  IF t.AdditionalChecker = NilChecker
                  THEN /\ adds = <<>>
                       /\ ~HasKind(trace[k].errs,
                                   {"prefix", "infoStatus", "infoEmpty", "infoKey"})
                  ELSE /\ Len(adds) = 1
                       /\ adds[1].errs = CheckerErrs(t.AdditionalChecker, service[trace[k].case])
                       /\ HasBlock(trace[k].errs, adds[1].errs)
    /\ pc = "additionalChecked" =>
          f.Errs = Flatten(Checks(CaseTrace(run, idx)))

\* the checker has just recorded failures after the status check recorded
\* one, and all of them are in the object's list and in the global count
C18_Witness ==
    /\ pc = "additionalChecked"
    /\ tests[idx].AdditionalChecker = InfoChecker
    /\ trace[Len(trace)].ev = "additional"
    /\ Len(trace[Len(trace)].errs) >= 2
    /\ Len(f.Errs) > Len(trace[Len(trace)].errs)
    /\ Global.NumErrored = Len(f.Errs)

----------------------------------------------------------------------------
\* the request of the current case targets the base URL followed by the end
\* point of the record, character by character, with the record's method
TargetsEndpoint ==
    RequestSent =>
        LET ep == tests[idx].Endpoint
        IN  /\ f.Method = tests[idx].Method
            /\ Len(f.Url) = Len(apiURL) + Len(ep)
            /\ \A n \in 1..Len(apiURL) : f.Url[n] = apiURL[n]
            /\ \A n \in 1..Len(ep) : f.Url[Len(apiURL) + n] = ep[n]

\* the step from Pending writes the request object and the count of
\* requests, and nothing else of the program
BuildsOnlyRequest ==
    pc = "pending" =>
        /\ tests' = tests
        /\ run' = run /\ idx' = idx
        /\ Global'.NumErrored = Global.NumErrored
        /\ Global'.NumAsserts = Global.NumAsserts
        /\ results' = results
        /\ exitCode' = exitCode

(* C19: the request of a case targets exactly the base URL followed by the *)
(* record's end point, byte for byte, with the record's method: "..",      *)
(* "../", "...", "..?" and a leading "/" are passed through unchanged; and *)
(* building the request changes nothing but the request object.            *)
C19_RequestTarget ==
    /\ []TargetsEndpoint
    /\ [][BuildsOnlyRequest]_vars

C19_Witness ==
    /\ RequestSent
    /\ tests[idx].Endpoint = <<"/", "o", "p", "e", "n", "a", "p", "i", ".", "j", "s", "o", "n">>
    /\ tests[idx].Method = "OPTIONS"
    /\ SubSeq(f.Url, Len(apiURL), Len(apiURL) + 1) = <<"/", "/">>

----------------------------------------------------------------------------
\* the value of a header starts with the ten characters of "text/plain"
StartsWithTextPlain(ct) ==
    /\ Len(ct) >= Len(TextPlain)
    /\ \A n \in 1..Len(TextPlain) : ct[n] = TextPlain[n]

(* C20: the content-type prefix checker passes if and only if the          *)
(* Content-Type header of the response starts with "text/plain": further   *)
(* parameters after it are accepted, an absent header fails; when it does  *)
(* not pass it records exactly one failure.                                *)
C20_PrefixChecker ==
    \A k \in DOMAIN trace :
        (/\ trace[k].ev = "additional"
         /\ tests[trace[k].case].AdditionalChecker = MetricsChecker) =>
            IF StartsWithTextPlain(service[trace[k].case].ContentType)
            THEN trace[k].errs = <<>>
            ELSE Len(trace[k].errs) = 1 /\ HasKind(trace[k].errs, {"prefix"})

\* a header one character short of the prefix has failed the check once
C20_Witness ==
    /\ pc = "additionalChecked"
    /\ tests[idx].AdditionalChecker = MetricsChecker
    /\ f.Resp.ContentType = SubSeq(TextPlain, 1, Len(TextPlain) - 1)
    /\ f.Resp.StatusCode = StatusOK
    /\ Len(f.Errs) = 1
    /\ HasKind(f.Errs, {"prefix"})

----------------------------------------------------------------------------
\* the number of failures listed by the reports of a history
RECURSIVE Reported(_)
Reported(s) ==
    IF s = <<>> THEN 0
    ELSE (IF Head(s).ev = "report" THEN Len(Head(s).errs) ELSE 0) + Reported(Tail(s))

\* a case is being validated: sent and not yet through its last check
Validating == pc \in {"sent", "statusChecked", "headerChecked", "additionalChecked"}

\* a step never lowers the count, and a step that raises it is a check of
\* the case being validated, which records as many failures on its object
CountStep ==
    /\ Global'.NumErrored >= Global.NumErrored
    /\ Global'.NumErrored # Global.NumErrored =>
          /\ Validating
          /\ idx' = idx /\ run' = run
          /\ Global'.NumErrored - Global.NumErrored = Len(f'.Errs) - Len(f.Errs)

\* once a case is reported the count is the sum of the reported failures,
\* and a call returns what the call before returned plus its own cases'
CountIsSumOfReports ==
    /\ pc \in {"reported", "pending", "loopEnd", "returned", "exited"}
          => Global.NumErrored = Reported(trace)
    /\ \A r \in Returned :
          results[r] = (IF r = 1 THEN 0 ELSE results[r - 1]) + Reported(RunTrace(r))

(* C21: during a run the global failure count never decreases and is       *)
(* written only by the case being validated; after a case is reported the  *)
(* count has grown by exactly the number of failures the case recorded,    *)
(* so at the end of a run it is its value at the start of the run plus the *)
(* sum of the failures of all cases.                                       *)
C21_CountGrowsByFailures ==
    /\ [][CountStep]_vars
    /\ []CountIsSumOfReports

\* the second call has returned more than the first, which had failures
C21_Witness ==
    /\ pc = "returned"
    /\ Len(results) = 2
    /\ results[1] > 0
    /\ results[2] = results[1] + Reported(RunTrace(2))
    /\ results[2] > results[1]

----------------------------------------------------------------------------
\* the record expects the payload of an item of organization 100000 that
\* was not found
ExpectsUnknownOrganization(t) ==
    HasPrefix(t.ExpectedResponseStatus,
              <<"I", "t", "e", "m", " ", "w", "i", "t", "h", " ", "I", "D", " ">>
              \o unknownOrganizationID \o <<"/">>)

(* C22: every case of the table that expects a not-found payload naming    *)
(* organization 100000 ("Item with ID 100000/...") has AuthHeader true and *)
(* AuthHeaderOrganization 100000, and the identity header of its request   *)
(* encodes organization 100000, the organization of the request path.      *)
C22_HeaderNamesUnknownOrganization ==
    (RequestSent /\ ExpectsUnknownOrganization(tests[idx])) =>
        /\ tests[idx].AuthHeader
        /\ tests[idx].AuthHeaderOrganization = 100000
        /\ Cardinality(IdentityHeaders) = 1
        /\ Atoi(StringMember(Payload, OrgIdName)) = 100000

\* what the code does for these cases: the header names 100000 exactly for
\* the records that set AuthHeaderOrganization, and organization 1 for the
\* others
C22_HeaderFollowsRecord ==
    (RequestSent /\ ExpectsUnknownOrganization(tests[idx])) =>
        /\ tests[idx].AuthHeader
        /\ Atoi(StringMember(Payload, OrgIdName))
              = IF tests[idx].AuthHeaderOrganization = 100000 THEN 100000 ELSE 1
        /\ tests[idx].AuthHeaderOrganization = 100000
              <=> idx \in {Len(BasicTests) + 3, Len(BasicTests) + 4}

----------------------------------------------------------------------------
\* the most failures the checks that a record enables can record: one for
\* the status, one for the content type, one for the prefix checker or, for
\* the info checker, three and one per expected key, and two for the JSON
\* status (the body that does not decode, and the status that differs)
MaxOfRecord(t) ==
    1
    + (IF t.ExpectedContentType # None THEN 1 ELSE 0)
    + (CASE t.AdditionalChecker = MetricsChecker -> 1
         [] t.AdditionalChecker = InfoChecker -> 3 + Len(expectedInfoKeys)
         [] OTHER -> 0)
    + (IF t.ExpectedResponseStatus # None THEN 2 ELSE 0)

RECURSIVE MaxOfTable(_)
MaxOfTable(table) ==
    IF table = <<>> THEN 0 ELSE MaxOfRecord(Head(table)) + MaxOfTable(Tail(table))

(* C23: for the table of the program, the largest number of failures that  *)
(* one run can record, the sum over all cases of the most that the enabled *)
(* checks of each case can record, is below 256; no report lists more than *)
(* its case's share and the first call returns no more than the sum, so    *)
(* the status that main passes to os.Exit, taken modulo 2^8, is the count  *)
(* itself and is zero only when no failure was recorded.                   *)
C23_ExitStatusKeepsCount ==
    /\ MaxOfTable(tests) < ExitWidth
    /\ (trace # <<>> /\ trace[Len(trace)].ev = "report")
          => Len(trace[Len(trace)].errs) <= MaxOfRecord(tests[trace[Len(trace)].case])
    /\ run = 1 => Global.NumErrored <= MaxOfTable(tests)
    /\ (pc = "exited" /\ Len(results) = 1) =>
          /\ exitCode = results[1]
          /\ exitCode = 0 <=> Global.NumErrored = 0

\* every case has failed every check it makes, and the exit status is the
\* largest count the table allows
C23_Witness ==
    /\ pc = "exited"
    /\ Len(results) = 1
    /\ Len(tests) = 51
    /\ results[1] = MaxOfTable(tests)
    /\ exitCode = 151

====
